---------------------------- MODULE Spec2Model ----------------------------
(***************************************************************************)
(* Pogo Stick Dash (happy-wheels/src/app/page.tsx): the run state machine, *)
(* the keyboard handlers, the frame loop and the physics step.             *)
(*                                                                         *)
(* The source computes in IEEE doubles; the model computes in fixed point: *)
(*   time                 milliseconds                                     *)
(*   positions, cameraX   1/100 px                                         *)
(*   velocities           1/10 px/s                                        *)
(*   angles               1/1000 rad       (Math.PI is 3142)               *)
(*   angular velocity     1/1000 rad/s                                     *)
(*   sin, cos             1/1000                                           *)
(*   progress             1/100 percent;  speed  px/s                      *)
(* Every product is divided back to its unit with RDiv (round to nearest). *)
(***************************************************************************)
EXTENDS Integers, Sequences, FiniteSets, TLC

\* ------------------------------------------------------------------------
\* Program constants (page.tsx lines 48-74)
\* ------------------------------------------------------------------------
GRAVITY == 2400
SPRING_STIFFNESS == 260
SPRING_DAMPING == 32
FOOT_FRICTION == 22
CONTROL_FORCE == 820
CONTROL_TORQUE == 11
\* AIR_TORQUE is 3.4 in the source; kept in tenths
AIR_TORQUE_10 == 34
JUMP_BASE_IMPULSE == 520
\* JUMP_COMPRESSION_SCALE is 7.8 in the source; kept in tenths
JUMP_COMPRESSION_SCALE_10 == 78
FINISH_X == 2150
\* Math.PI in 1/1000 rad
PI == 3142

levelSegments ==
  << [startX |-> 0,    endX |-> 360,  startY |-> 560, endY |-> 560],
     [startX |-> 360,  endX |-> 620,  startY |-> 560, endY |-> 480],
     [startX |-> 620,  endX |-> 880,  startY |-> 480, endY |-> 510],
     [startX |-> 880,  endX |-> 1120, startY |-> 510, endY |-> 460],
     [startX |-> 1120, endX |-> 1320, startY |-> 460, endY |-> 520],
     [startX |-> 1320, endX |-> 1540, startY |-> 520, endY |-> 490],
     [startX |-> 1540, endX |-> 1760, startY |-> 490, endY |-> 540],
     [startX |-> 1760, endX |-> 2050, startY |-> 540, endY |-> 500],
     [startX |-> 2050, endX |-> 2300, startY |-> 500, endY |-> 500] >>

spikeFields ==
  << [x |-> 1180, width |-> 120, height |-> 70],
     [x |-> 1680, width |-> 110, height |-> 60] >>

\* ------------------------------------------------------------------------
\* Arithmetic
\* ------------------------------------------------------------------------
Abs(a) == IF a < 0 THEN -a ELSE a

Min(a, b) == IF a < b THEN a ELSE b

Max(a, b) == IF a > b THEN a ELSE b

\* a / b rounded to the nearest integer (b > 0), symmetric about zero
RDiv(a, b) == IF a >= 0 THEN (a + b \div 2) \div b ELSE -((-a + b \div 2) \div b)

\* function clamp(value, min, max)
clamp(value, min, max) == Min(max, Max(min, value))

\* Math.sin on [0, PI] (Bhaskara's rational approximation, error < 0.003)
SinPos(x) ==
  LET q == 4 * x * (PI - x)
  IN  RDiv(4000 * (q \div 64), (5 * PI * PI - q) \div 64)

\* Math.sin on [-PI - PI/2, PI + PI/2]
Sin(a) ==
  IF a < 0
    THEN IF -a > PI THEN SinPos(-a - PI) ELSE -SinPos(-a)
    ELSE IF a > PI THEN -SinPos(a - PI) ELSE SinPos(a)

\* Math.cos on [-PI, PI]
Cos(a) == Sin(a + 1571)

\* floor(sqrt(n)) by bisection on [lo, hi]
RECURSIVE SqrtIn(_, _, _)
SqrtIn(n, lo, hi) ==
  IF lo >= hi THEN lo
  ELSE LET mid == (lo + hi + 1) \div 2
       IN  IF mid * mid <= n THEN SqrtIn(n, mid, hi) ELSE SqrtIn(n, lo, mid - 1)

\* Math.hypot(vx, vy) in px/s, from velocities in 1/10 px/s
Hypot(vx, vy) ==
  LET a == Abs(vx) \div 10
      b == Abs(vy) \div 10
  IN  SqrtIn(a * a + b * b, 0, 46340)

\* normalizeAngle with the second loop left out
RECURSIVE normalizeAngle_oneSided(_)
normalizeAngle_oneSided(angle) ==
  IF angle > PI THEN normalizeAngle_oneSided(angle - PI * 2) ELSE angle

\* function normalizeAngle(angle): the two while loops
RECURSIVE normalizeAngle(_)
normalizeAngle(angle) ==
  IF angle > PI THEN normalizeAngle(angle - PI * 2)
  ELSE IF angle < -PI THEN normalizeAngle(angle + PI * 2)
  ELSE angle

\* function createPlayer()
createPlayer ==
  [x |-> 12000, y |-> 42000, vx |-> 0, vy |-> 0, angle |-> 0,
   angularVelocity |-> 0, legLength |-> 160, headRadius |-> 28,
   headOffset |-> 54]

\* the for loop of getGroundHeight from segment i on; falls through to last.endY
RECURSIVE GroundFrom(_, _)
GroundFrom(i, x) ==
  IF i > Len(levelSegments) THEN levelSegments[Len(levelSegments)].endY * 100
  ELSE LET segment == levelSegments[i]
           span == segment.endX - segment.startX
       IN  IF x >= segment.startX * 100 /\ x <= segment.endX * 100
             THEN segment.startY * 100 +
                  (IF span = 0 THEN 0
                   ELSE RDiv((segment.endY - segment.startY) * (x - segment.startX * 100), span))
             ELSE GroundFrom(i + 1, x)

\* getGroundHeight with the interpolation measured from the far end
getGroundHeight_reversed(x) ==
  IF x <= levelSegments[1].startX * 100 THEN levelSegments[1].startY * 100
  ELSE IF \E i \in 1..Len(levelSegments) :
            x >= levelSegments[i].startX * 100 /\ x <= levelSegments[i].endX * 100
    THEN LET segment == levelSegments[CHOOSE i \in 1..Len(levelSegments) :
                          /\ x >= levelSegments[i].startX * 100
                          /\ x <= levelSegments[i].endX * 100
                          /\ \A j \in 1..(i - 1) : x > levelSegments[j].endX * 100]
         IN  segment.startY * 100 +
               RDiv((segment.endY - segment.startY) * (segment.endX * 100 - x),
                    segment.endX - segment.startX)
    ELSE levelSegments[Len(levelSegments)].endY * 100

\* function getGroundHeight(x)
getGroundHeight(x) ==
  IF x <= levelSegments[1].startX * 100 THEN levelSegments[1].startY * 100
  ELSE GroundFrom(1, x)

\* function checkSpikeCollision(player)
checkSpikeCollision(player) ==
  LET sin == Sin(player.angle)
      cos == Cos(player.angle)
      headX == player.x - RDiv(sin * player.headOffset, 10)
      headY == player.y - RDiv(cos * player.headOffset, 10)
      bodyBottom == player.y + 2800
  IN  \E i \in 1..Len(spikeFields) :
        LET field == spikeFields[i]
            groundBase == getGroundHeight(field.x * 100 + field.width * 50)
            top == groundBase - field.height * 100
            withinHead == headX > (field.x - 12) * 100 /\
                          headX < (field.x + field.width + 12) * 100
            withinBody == player.x > (field.x - 14) * 100 /\
                          player.x < (field.x + field.width + 14) * 100
        IN  \/ withinHead /\ headY > top + 400
            \/ withinBody /\ bodyBottom > top + 1200

\* ------------------------------------------------------------------------
\* Run state machine.  A machine state s is [rt |-> the Runtime record,
\* ui |-> the React state and refs of Home()].
\* ------------------------------------------------------------------------
\* null (startTimestamp, finalTime, bestTime); times are never negative
Null == -1

\* runtime.setStatus
setStatus(s, next) ==
  IF s.rt.status # next
    THEN [s EXCEPT !.rt.status = next, !.ui.status = next]
    ELSE s

\* resetGame that leaves the input flags as they are
resetGame_keepsInput(s, nextStatus, t) ==
  LET rt1 == [s.rt EXCEPT !.player = createPlayer,
                          !.cameraX = 0,
                          !.lastTime = t,
                          !.elapsed = 0,
                          !.startTimestamp = IF nextStatus = "playing" THEN t ELSE Null,
                          !.lastHudBroadcast = t,
                          !.onGround = FALSE]
      ui1 == IF nextStatus = "playing"
               THEN [s.ui EXCEPT !.elapsed = 0, !.speed = 0, !.progress = 0,
                                 !.progressRef = 0, !.speedRef = 0]
               ELSE s.ui
  IN  setStatus([rt |-> rt1, ui |-> ui1], nextStatus)

\* resetGame that goes back to the title screen after a won run
resetGame_introAfterWin(s, nextStatus, t) ==
  LET rt1 == [s.rt EXCEPT !.player = createPlayer,
                          !.cameraX = 0,
                          !.lastTime = t,
                          !.elapsed = 0,
                          !.startTimestamp = IF nextStatus = "playing" THEN t ELSE Null,
                          !.lastHudBroadcast = t,
                          !.input = [left |-> FALSE, right |-> FALSE,
                                     jumpHeld |-> FALSE, jumpPressed |-> FALSE],
                          !.onGround = FALSE]
      ui1 == IF nextStatus = "playing"
               THEN [s.ui EXCEPT !.elapsed = 0, !.speed = 0, !.progress = 0,
                                 !.progressRef = 0, !.speedRef = 0]
               ELSE s.ui
  IN  setStatus([rt |-> rt1, ui |-> ui1],
                IF s.rt.status = "won" THEN "intro" ELSE nextStatus)

\* runtime.resetGame(nextStatus); t is performance.now()
resetGame(s, nextStatus, t) ==
  LET rt1 == [s.rt EXCEPT !.player = createPlayer,
                          !.cameraX = 0,
                          !.lastTime = t,
                          !.elapsed = 0,
                          !.startTimestamp = IF nextStatus = "playing" THEN t ELSE Null,
                          !.lastHudBroadcast = t,
                          !.input = [left |-> FALSE, right |-> FALSE,
                                     jumpHeld |-> FALSE, jumpPressed |-> FALSE],
                          !.onGround = FALSE]
      ui1 == IF nextStatus = "playing"
               THEN [s.ui EXCEPT !.elapsed = 0, !.speed = 0, !.progress = 0,
                                 !.progressRef = 0, !.speedRef = 0]
               ELSE s.ui
  IN  setStatus([rt |-> rt1, ui |-> ui1], nextStatus)

\* handleWin without the status guard
handleWin_unguarded(s) ==
  LET s1 == setStatus(s, "won")
      resultTime == s1.rt.elapsed
      prev == s1.ui.bestTime
  IN  [s1 EXCEPT !.ui.finalTime = resultTime,
                 !.ui.bestTime = IF prev = Null \/ resultTime < prev
                                   THEN resultTime ELSE prev,
                 !.ui.progress = 10000,
                 !.ui.progressRef = 10000,
                 !.ui.speed = 0,
                 !.ui.speedRef = 0]

\* handleWin that records the latest time as the best time
handleWin_latest(s) ==
  IF s.rt.status # "playing" THEN s
  ELSE LET s1 == setStatus(s, "won")
           resultTime == s1.rt.elapsed
       IN  [s1 EXCEPT !.ui.finalTime = resultTime,
                      !.ui.bestTime = resultTime,
                      !.ui.progress = 10000,
                      !.ui.progressRef = 10000,
                      !.ui.speed = 0,
                      !.ui.speedRef = 0]

\* runtime.handleWin
handleWin(s) ==
  IF s.rt.status # "playing" THEN s
  ELSE LET s1 == setStatus(s, "won")
           resultTime == s1.rt.elapsed
           prev == s1.ui.bestTime
       IN  [s1 EXCEPT !.ui.finalTime = resultTime,
                      !.ui.bestTime = IF prev = Null \/ resultTime < prev
                                        THEN resultTime ELSE prev,
                      !.ui.progress = 10000,
                      !.ui.progressRef = 10000,
                      !.ui.speed = 0,
                      !.ui.speedRef = 0]

\* runtime.handleCrash
handleCrash(s) ==
  IF s.rt.status # "playing" THEN s
  ELSE LET s1 == setStatus(s, "crashed")
       IN  [s1 EXCEPT !.ui.speed = 0, !.ui.speedRef = 0]

\* runtime.startGame
startGame(s, t) ==
  LET s1 == resetGame(s, "playing", t)
  IN  [s1 EXCEPT !.ui.finalTime = Null]

\* ------------------------------------------------------------------------
\* Physics step
\* ------------------------------------------------------------------------
\* stepPhysics lines 451-457: the jump, taken in ground contact when
\* jumpPressed is set; tangentVelocity is the value computed before friction
Jump(player, sin, cos, springCompression, tangentVelocity) ==
  LET jumpImpulse == JUMP_BASE_IMPULSE * 10
                       + RDiv(springCompression * JUMP_COMPRESSION_SCALE_10, 100)
  IN  [player EXCEPT !.vx = @ - RDiv(sin * jumpImpulse * 7, 10000),
                     !.vy = @ - RDiv(cos * jumpImpulse, 1000),
                     !.angularVelocity = @ - RDiv(tangentVelocity * 15, 10)]

\* stepPhysics lines 442-457: foot friction, then the jump
Friction(player, input, dt, sin, cos, springCompression) ==
  LET tangentVelocity == RDiv(player.vx * cos, 1000) - RDiv(player.vy * sin, 1000)
                           + RDiv(player.angularVelocity * player.legLength, 100)
      frictionDv == -RDiv(RDiv(tangentVelocity * dt, 10) * FOOT_FRICTION, 100)
      rubbed == [player EXCEPT !.vx = @ + RDiv(cos * frictionDv, 1000),
                               !.vy = @ - RDiv(sin * frictionDv, 1000),
                               !.angularVelocity = @ + RDiv(frictionDv * 26, 10)]
  IN  IF input.jumpPressed
        THEN Jump(rubbed, sin, cos, springCompression, tangentVelocity)
        ELSE rubbed

\* stepPhysics lines 427-457: the foot is pushed out of the ground and the
\* spring acts along the leg, then friction and the jump
Contact(player, input, dt, sin, cos, penetration) ==
  LET normalVelocity == RDiv(player.vx * sin, 1000) + RDiv(player.vy * cos, 1000)
      springCompression == clamp(penetration, 0, 12000)
      springForce == RDiv(springCompression * SPRING_STIFFNESS, 10)
                       - normalVelocity * SPRING_DAMPING
      springDv == RDiv(springForce * dt, 1000)
  IN  Friction([player EXCEPT !.x = @ - RDiv(sin * penetration, 1000),
                              !.y = @ - RDiv(cos * penetration, 1000),
                              !.vx = @ - RDiv(sin * springDv, 1000),
                              !.vy = @ - RDiv(cos * springDv, 1000)],
               input, dt, sin, cos, springCompression)

\* stepPhysics lines 420-460: the foot against the ground, and the air torque
\* when it is clear of it
Foot(player, input, dt, sin, cos) ==
  LET footX == player.x + RDiv(sin * player.legLength, 10)
      footY == player.y + RDiv(cos * player.legLength, 10)
      penetration == footY - getGroundHeight(footX)
      controlIntent == (IF input.right THEN 1 ELSE 0) - (IF input.left THEN 1 ELSE 0)
  IN  IF penetration >= 0
        THEN [player |-> Contact(player, input, dt, sin, cos, penetration),
              onGround |-> TRUE]
        ELSE [player |-> [player EXCEPT !.angularVelocity =
                            @ + RDiv(AIR_TORQUE_10 * controlIntent * dt, 10)],
              onGround |-> FALSE]

\* stepPhysics lines 405-418: control, gravity, damping, integration
Advance(player, input, dt) ==
  LET controlIntent == (IF input.right THEN 1 ELSE 0) - (IF input.left THEN 1 ELSE 0)
      vx1 == RDiv((player.vx + RDiv(CONTROL_FORCE * 10 * controlIntent * dt, 1000)) * 998, 1000)
      w1 == RDiv((player.angularVelocity + CONTROL_TORQUE * controlIntent * dt) * 992, 1000)
      vy1 == RDiv((player.vy + RDiv(GRAVITY * 10 * dt, 1000)) * 999, 1000)
  IN  [player EXCEPT !.vx = vx1,
                     !.vy = vy1,
                     !.angularVelocity = w1,
                     !.x = @ + RDiv(vx1 * dt, 100),
                     !.y = @ + RDiv(vy1 * dt, 100),
                     !.angle = normalizeAngle(@ + RDiv(w1 * dt, 1000))]

\* the foot of the advanced player: sin and cos of its angle are taken once
Grounded(player, input, dt) ==
  Foot(player, input, dt, Sin(player.angle), Cos(player.angle))

\* stepPhysics lines 405-463: control, gravity, damping, integration, foot
\* contact, spring, friction, jump.  Returns the new player with the contact
\* flag.
Integrate(player, input, dt) == Grounded(Advance(player, input, dt), input, dt)

\* the crash condition of stepPhysics (lines 465-475)
CrashCondition(player, viewport) ==
  LET sin == Sin(player.angle)
      cos == Cos(player.angle)
      headCollision == checkSpikeCollision(player)
      headX == player.x - RDiv(sin * player.headOffset, 10)
      headY == player.y - RDiv(cos * player.headOffset, 10)
      headGround == getGroundHeight(headX)
      bodyGround == getGroundHeight(player.x)
  IN  \/ headCollision
      \/ headY + player.headRadius * 100 > headGround
      \/ player.y + 2400 > bodyGround + 600
      \/ player.y > (viewport.height + 480) * 100

\* the finish condition of stepPhysics (line 479)
FinishCondition(player) == player.x >= FINISH_X * 100

\* stepPhysics lines 462-463 with the player written back: the contact flag
\* is stored and the jump flag consumed
Move(s, r) ==
  [s EXCEPT !.rt.player = r.player,
            !.rt.onGround = r.onGround,
            !.rt.input.jumpPressed = FALSE]

\* stepPhysics lines 479-481: the finish check
Finish(s) == IF FinishCondition(s.rt.player) THEN handleWin(s) ELSE s

\* stepPhysics lines 465-477: the crash check
Crash(s) ==
  IF CrashCondition(s.rt.player, s.rt.viewport) THEN handleCrash(s) ELSE s

\* stepPhysics with the finish check ahead of the crash check
stepPhysics_finishFirst(s, dt) ==
  Crash(Finish(Move(s, Integrate(s.rt.player, s.rt.input, dt))))

\* stepPhysics that consumes the jump flag only in ground contact
stepPhysics_keepsFlag(s, dt) ==
  LET r == Integrate(s.rt.player, s.rt.input, dt)
  IN  Finish(Crash([s EXCEPT !.rt.player = r.player,
                             !.rt.onGround = r.onGround,
                             !.rt.input.jumpPressed = IF r.onGround THEN FALSE ELSE @]))

\* function stepPhysics(runtime, dt)
stepPhysics(s, dt) ==
  Finish(Crash(Move(s, Integrate(s.rt.player, s.rt.input, dt))))

\* updateCamera without the final clamp
updateCamera_unclamped(s, dt) ==
  IF s.rt.viewport.width <= 0 THEN s
  ELSE LET target == s.rt.player.x - s.rt.viewport.width * 35
           followStrength == clamp(dt * 7, 0, 1000)
       IN  [s EXCEPT !.rt.cameraX =
              @ + RDiv((target - @) * followStrength, 1000)]

\* function updateCamera(runtime, dt)
updateCamera(s, dt) ==
  IF s.rt.viewport.width <= 0 THEN s
  ELSE LET target == s.rt.player.x - s.rt.viewport.width * 35
           followStrength == clamp(dt * 7, 0, 1000)
           cameraX1 == s.rt.cameraX + RDiv((target - s.rt.cameraX) * followStrength, 1000)
       IN  [s EXCEPT !.rt.cameraX =
              clamp(cameraX1, 0, Max(0, FINISH_X * 100 - s.rt.viewport.width * 40))]

\* the HUD broadcast of loop (lines 738-757)
broadcastHud(s, timestamp) ==
  IF timestamp - s.rt.lastHudBroadcast > 90
    THEN LET s1 == [s EXCEPT !.rt.lastHudBroadcast = timestamp]
         IN  IF s1.rt.status = "playing"
               THEN LET nextProgress == clamp(RDiv(s1.rt.player.x * 100, FINISH_X), 0, 10000)
                        nextSpeed == Hypot(s1.rt.player.vx, s1.rt.player.vy)
                        moveProgress == Abs(nextProgress - s1.ui.progressRef) > 20
                        moveSpeed == Abs(nextSpeed - s1.ui.speedRef) > 14
                    IN  [s1 EXCEPT !.ui.elapsed = s1.rt.elapsed,
                                   !.ui.progressRef = IF moveProgress THEN nextProgress ELSE @,
                                   !.ui.progress = IF moveProgress THEN nextProgress ELSE @,
                                   !.ui.speedRef = IF moveSpeed THEN nextSpeed ELSE @,
                                   !.ui.speed = IF moveSpeed THEN nextSpeed ELSE @]
               ELSE s1
    ELSE s

\* loop that steps the physics whatever the status
loop_ungated(s, timestamp) ==
  LET dt == clamp(timestamp - s.rt.lastTime, 0, 40)
      s1 == [s EXCEPT !.rt.lastTime = timestamp]
      start == IF s1.rt.startTimestamp = Null THEN timestamp ELSE s1.rt.startTimestamp
      s2 == IF s1.rt.status = "playing"
              THEN stepPhysics([s1 EXCEPT !.rt.startTimestamp = start,
                                          !.rt.elapsed = timestamp - start], dt)
              ELSE stepPhysics(s1, dt)
  IN  broadcastHud(updateCamera(s2, dt), timestamp)

\* loop that keeps the timer running whatever the status
loop_timerRuns(s, timestamp) ==
  LET dt == clamp(timestamp - s.rt.lastTime, 0, 40)
      start == IF s.rt.startTimestamp = Null THEN timestamp ELSE s.rt.startTimestamp
      s1 == [s EXCEPT !.rt.lastTime = timestamp,
                      !.rt.startTimestamp = start,
                      !.rt.elapsed = timestamp - start]
      s2 == IF s1.rt.status = "playing" THEN stepPhysics(s1, dt) ELSE s1
  IN  broadcastHud(updateCamera(s2, dt), timestamp)

\* const loop = (timestamp) => ...   (render draws only)
loop(s, timestamp) ==
  LET dt == clamp(timestamp - s.rt.lastTime, 0, 40)
      s1 == [s EXCEPT !.rt.lastTime = timestamp]
      s2 == IF s1.rt.status = "playing"
              THEN LET start == IF s1.rt.startTimestamp = Null
                                  THEN timestamp ELSE s1.rt.startTimestamp
                   IN  stepPhysics([s1 EXCEPT !.rt.startTimestamp = start,
                                              !.rt.elapsed = timestamp - start], dt)
              ELSE s1
  IN  broadcastHud(updateCamera(s2, dt), timestamp)

\* keyDown whose jump keys start a run whatever the status
keyDown_restarts(s, code, t) ==
  CASE code \in {"ArrowLeft", "KeyA"} -> [s EXCEPT !.rt.input.left = TRUE]
    [] code \in {"ArrowRight", "KeyD"} -> [s EXCEPT !.rt.input.right = TRUE]
    [] code \in {"ArrowUp", "KeyW", "Space"} ->
         startGame([s EXCEPT !.rt.input.jumpPressed =
                                IF ~s.rt.input.jumpHeld THEN TRUE ELSE @,
                             !.rt.input.jumpHeld = TRUE], t)
    [] code = "Enter" -> startGame(s, t)
    [] code = "KeyR" -> startGame(s, t)
    [] OTHER -> s

\* const keyDown = (event) => ...
keyDown(s, code, t) ==
  CASE code \in {"ArrowLeft", "KeyA"} -> [s EXCEPT !.rt.input.left = TRUE]
    [] code \in {"ArrowRight", "KeyD"} -> [s EXCEPT !.rt.input.right = TRUE]
    [] code \in {"ArrowUp", "KeyW", "Space"} ->
         LET s1 == [s EXCEPT !.rt.input.jumpPressed =
                                IF ~s.rt.input.jumpHeld THEN TRUE ELSE @,
                             !.rt.input.jumpHeld = TRUE]
         IN  IF s1.rt.status = "intro" THEN startGame(s1, t)
             ELSE IF s1.rt.status = "crashed" \/ s1.rt.status = "won"
                    THEN startGame(s1, t)
                    ELSE s1
    [] code = "Enter" -> startGame(s, t)
    [] code = "KeyR" -> startGame(s, t)
    [] OTHER -> s

\* const keyUp = (event) => ...
keyUp(s, code) ==
  CASE code \in {"ArrowLeft", "KeyA"} -> [s EXCEPT !.rt.input.left = FALSE]
    [] code \in {"ArrowRight", "KeyD"} -> [s EXCEPT !.rt.input.right = FALSE]
    [] code \in {"ArrowUp", "KeyW", "Space"} -> [s EXCEPT !.rt.input.jumpHeld = FALSE]
    [] OTHER -> s

\* const resize = () => ...   (the canvas rect is the environment's)
resize(s, rect) ==
  [s EXCEPT !.rt.viewport = [width |-> rect.width, height |-> rect.height]]

\* handleStart / handleRestart (the two buttons of the status panel)
handleStart(s, t) == startGame(s, t)

\* ------------------------------------------------------------------------
\* State
\* ------------------------------------------------------------------------
VARIABLES
  runtime,    \* the Runtime record built in useEffect
  ui,         \* React state of Home(): status, elapsed, progress, speed,
              \* finalTime, bestTime, and the refs progressRef, speedRef
  now,        \* the clock: performance.now() and the frame timestamps
  keysDown,   \* the keys physically held (the keyboard's state)
  frames,     \* frame callbacks run so far
  events,     \* input events delivered so far
  last,       \* what the last operation was and what it met
  wonTimes,   \* elapsed times of the runs won so far
  forward,    \* vx was >= 0 at every physics step of the run so far
  probeX,     \* an x handed to getGroundHeight on its own
  groundY     \* the height that call returned (Null before it)

vars == <<runtime, ui, now, keysDown, frames, events, last, wonTimes, forward,
          probeX, groundY>>

\* Bounds of the exploration
MaxFrames == 4
MaxEvents == 1
MaxSpeed == 200000
MaxSpin == 500000
MaxPos == 1000000
MaxProbe == 240

\* timestamp deltas between frame callbacks: a 60 Hz frame and a slow frame
FrameDeltas == {16, 100}

\* canvas.getBoundingClientRect() results
Rects == { [width |-> 0, height |-> 0],
           [width |-> 1280, height |-> 720],
           [width |-> 6000, height |-> 900] }

JumpCodes == {"ArrowUp", "KeyW", "Space"}

KeyCodes == {"ArrowLeft", "ArrowRight", "Enter", "KeyR", "KeyX"}
              \cup JumpCodes

InRange(player) ==
  /\ Abs(player.vx) <= MaxSpeed
  /\ Abs(player.vy) <= MaxSpeed
  /\ Abs(player.angularVelocity) <= MaxSpin
  /\ Abs(player.x) <= MaxPos
  /\ Abs(player.y) <= MaxPos

NoOp ==
  [op |-> "none", code |-> "", repeat |-> FALSE, status |-> "intro",
   pressed |-> FALSE, contact |-> FALSE, jumped |-> FALSE,
   crashHit |-> FALSE, finishHit |-> FALSE]

\* the program and its environment as one record
State ==
  [runtime |-> runtime, ui |-> ui, now |-> now, keysDown |-> keysDown,
   last |-> last, wonTimes |-> wonTimes, forward |-> forward]

\* the useEffect body up to the first requestAnimationFrame (lines 549-762);
\* resize() has run once with the canvas rect
Constructed(rect) ==
  [runtime |-> [player |-> createPlayer,
                input |-> [left |-> FALSE, right |-> FALSE,
                           jumpHeld |-> FALSE, jumpPressed |-> FALSE],
                status |-> "intro",
                viewport |-> [width |-> rect.width, height |-> rect.height],
                cameraX |-> 0,
                lastTime |-> 0,
                startTimestamp |-> Null,
                elapsed |-> 0,
                lastHudBroadcast |-> 0,
                onGround |-> FALSE],
   ui |-> [status |-> "intro", elapsed |-> 0, progress |-> 0, speed |-> 0,
           finalTime |-> Null, bestTime |-> Null, progressRef |-> 0, speedRef |-> 0],
   now |-> 0,
   keysDown |-> {},
   last |-> NoOp,
   wonTimes |-> {},
   forward |-> TRUE]

\* what the physics step of a frame meets, for the record in last: ground
\* contact, whether the jump press changed the outcome of the step (the
\* impulse was applied), and the crash and finish conditions
StepFacts(rt, dt) ==
  IF rt.status = "playing"
    THEN LET r == Integrate(rt.player, rt.input, dt)
             unpressed == Integrate(rt.player, [rt.input EXCEPT !.jumpPressed = FALSE], dt)
         IN  [contact |-> r.onGround,
              jumped |-> rt.input.jumpPressed /\ r.player # unpressed.player,
              crashHit |-> CrashCondition(r.player, rt.viewport),
              finishHit |-> FinishCondition(r.player),
              forward |-> Advance(rt.player, rt.input, dt).vx >= 0 /\ r.player.vx >= 0]
    ELSE [contact |-> FALSE, jumped |-> FALSE, crashHit |-> FALSE, finishHit |-> FALSE,
          forward |-> TRUE]

\* no physics step has run since the rider was put at the start (a run that
\* has just been started, or the program as constructed)
FreshRun(rt) == rt.player = createPlayer /\ rt.elapsed = 0

\* the state a frame callback leaves: s is the machine after loop, f the
\* facts of its physics step
Framed(st, timestamp, s, f) ==
  [runtime |-> s.rt,
   ui |-> s.ui,
   now |-> timestamp,
   keysDown |-> st.keysDown,
   last |-> [NoOp EXCEPT !.op = "frame",
                         !.status = st.runtime.status,
                         !.pressed = st.runtime.input.jumpPressed,
                         !.contact = f.contact,
                         !.jumped = f.jumped,
                         !.crashHit = f.crashHit,
                         !.finishHit = f.finishHit],
   wonTimes |-> IF st.runtime.status # "won" /\ s.rt.status = "won"
                  THEN st.wonTimes \cup {s.rt.elapsed} ELSE st.wonTimes,
   forward |-> st.forward /\ f.forward]

\* requestAnimationFrame(loop) fires, delta ms after the previous instant
AfterFrame(st, delta) ==
  Framed(st, st.now + delta,
         loop([rt |-> st.runtime, ui |-> st.ui], st.now + delta),
         StepFacts(st.runtime, clamp(st.now + delta - st.runtime.lastTime, 0, 40)))

\* window keydown; a keydown of a key already held is the keyboard's auto-repeat
AfterKeyDown(st, code) ==
  LET s == keyDown([rt |-> st.runtime, ui |-> st.ui], code, st.now)
  IN  [st EXCEPT !.runtime = s.rt,
                 !.ui = s.ui,
                 !.keysDown = @ \cup {code},
                 !.forward = FreshRun(s.rt) \/ @,
                 !.last = [NoOp EXCEPT !.op = "keydown", !.code = code,
                                       !.repeat = code \in st.keysDown,
                                       !.status = st.runtime.status,
                                       !.pressed = st.runtime.input.jumpPressed]]

\* window keyup
AfterKeyUp(st, code) ==
  LET s == keyUp([rt |-> st.runtime, ui |-> st.ui], code)
  IN  [st EXCEPT !.runtime = s.rt,
                 !.ui = s.ui,
                 !.keysDown = @ \ {code},
                 !.last = [NoOp EXCEPT !.op = "keyup", !.code = code,
                                       !.status = st.runtime.status,
                                       !.pressed = st.runtime.input.jumpPressed]]

\* a click on "Start Run" / "Play Again" / "Reset (R)"
AfterClick(st) ==
  LET s == handleStart([rt |-> st.runtime, ui |-> st.ui], st.now)
  IN  [st EXCEPT !.runtime = s.rt,
                 !.ui = s.ui,
                 !.forward = FreshRun(s.rt) \/ @,
                 !.last = [NoOp EXCEPT !.op = "click",
                                       !.status = st.runtime.status,
                                       !.pressed = st.runtime.input.jumpPressed]]

\* window resize
AfterResize(st, rect) ==
  LET s == resize([rt |-> st.runtime, ui |-> st.ui], rect)
  IN  [st EXCEPT !.runtime = s.rt,
                 !.ui = s.ui,
                 !.last = [NoOp EXCEPT !.op = "resize",
                                       !.status = st.runtime.status,
                                       !.pressed = st.runtime.input.jumpPressed]]

Become(st) ==
  /\ runtime' = st.runtime
  /\ ui' = st.ui
  /\ now' = st.now
  /\ keysDown' = st.keysDown
  /\ last' = st.last
  /\ wonTimes' = st.wonTimes
  /\ forward' = st.forward
  /\ UNCHANGED <<probeX, groundY>>

StartMachine(st) ==
  /\ runtime = st.runtime
  /\ ui = st.ui
  /\ now = st.now
  /\ keysDown = st.keysDown
  /\ last = st.last
  /\ wonTimes = st.wonTimes
  /\ forward = st.forward
  /\ frames = 0
  /\ events = 0

StartAt(st) ==
  /\ StartMachine(st)
  /\ probeX = 0
  /\ groundY = Null

Init == \E rect \in Rects : StartAt(Constructed(rect))

Frame(delta) ==
  /\ frames < MaxFrames
  /\ \E st \in {AfterFrame(State, delta)} :
       /\ InRange(st.runtime.player)
       /\ Become(st)
  /\ frames' = frames + 1
  /\ UNCHANGED events

KeyDown(code) ==
  /\ events < MaxEvents
  /\ \E st \in {AfterKeyDown(State, code)} : Become(st)
  /\ events' = events + 1
  /\ UNCHANGED frames

\* only a key that is held can be released
KeyUp(code) ==
  /\ events < MaxEvents
  /\ code \in keysDown
  /\ \E st \in {AfterKeyUp(State, code)} : Become(st)
  /\ events' = events + 1
  /\ UNCHANGED frames

\* the status panel with the buttons is rendered only while status is intro,
\* crashed or won (line 816)
Click ==
  /\ events < MaxEvents
  /\ ui.status \in {"intro", "crashed", "won"}
  /\ \E st \in {AfterClick(State)} : Become(st)
  /\ events' = events + 1
  /\ UNCHANGED frames

Resize(rect) ==
  /\ events < MaxEvents
  /\ \E st \in {AfterResize(State, rect)} : Become(st)
  /\ events' = events + 1
  /\ UNCHANGED frames

Next ==
  \/ \E delta \in FrameDeltas : Frame(delta)
  \/ \E code \in KeyCodes : KeyDown(code)
  \/ \E code \in KeyCodes : KeyUp(code)
  \/ Click
  \/ \E rect \in Rects : Resize(rect)

Spec == Init /\ [][Next]_vars

\* ------------------------------------------------------------------------
\* Runs in progress.  The end of a run lies deeper than the bounded search
\* from Init reaches, so a second specification starts where a scripted
\* sequence of events and frames has brought the constructed program.
\* ------------------------------------------------------------------------
Apply(st, e) ==
  CASE e[1] = "frame" -> AfterFrame(st, e[2])
    [] e[1] = "keydown" -> AfterKeyDown(st, e[2])
    [] e[1] = "keyup" -> AfterKeyUp(st, e[2])

\* the state a script leaves; it stops where the rider leaves the explored range
RECURSIVE Replay(_, _)
Replay(st, script) ==
  IF script = <<>> THEN st
  ELSE LET next == Apply(st, Head(script))
       IN  IF InRange(next.runtime.player) THEN Replay(next, Tail(script)) ELSE st

Down(code) == <<"keydown", code>>

Up(code) == <<"keyup", code>>

FramesOf(n, delta) == [i \in 1..n |-> <<"frame", delta>>]

\* a run that leans right, pogo-jumps twice and is one frame short of the flag
FlightRun ==
  FramesOf(2, 40) \o << Down("ArrowRight") >> \o FramesOf(1, 40)
    \o << Up("ArrowRight"), Down("Space") >> \o FramesOf(1, 40)
    \o << Up("Space"), Down("Space") >> \o FramesOf(12, 40)
    \o << Up("Space") >>

ScriptFlight == << Down("Enter"), Up("Enter") >> \o FlightRun

\* the same run after an earlier run was won and the game restarted
ScriptSecondRun ==
  ScriptFlight \o FramesOf(1, 40) \o << Down("Enter"), Up("Enter") >> \o FlightRun

\* a run that comes down head first one frame short of the flag
ScriptDive ==
  << Down("Enter"), Up("Enter"), Down("ArrowRight") >> \o FramesOf(2, 40)
    \o << Down("Space") >> \o FramesOf(1, 40)
    \o << Down("ArrowLeft"), Up("ArrowRight") >> \o FramesOf(1, 40)
    \o << Up("ArrowLeft") >> \o FramesOf(1, 40)
    \o << Down("ArrowLeft") >> \o FramesOf(16, 40)

\* a run that tumbles backwards in the air
ScriptTumble ==
  << Down("Enter"), Up("Enter"), Down("ArrowRight") >> \o FramesOf(2, 40)
    \o << Down("Space") >> \o FramesOf(1, 40) \o FramesOf(2, 16)
    \o FramesOf(1, 40) \o << Up("ArrowRight") >>

\* a run started with the space bar, which is still held
ScriptHold == << Down("Space") >> \o FramesOf(1, 16)

\* a run that bounces upright on the spot, one jump taken, no lean yet
ScriptBounce ==
  << Down("Enter"), Up("Enter") >> \o FramesOf(4, 100)
    \o << Down("Space") >> \o FramesOf(4, 100)

Scripts ==
  {ScriptFlight, ScriptSecondRun, ScriptDive, ScriptTumble, ScriptHold, ScriptBounce}

\* the canvas rect of the scripted runs
PlayRect == [width |-> 1280, height |-> 720]

InitRun ==
  \/ Init
  \/ \E script \in Scripts : StartAt(Replay(Constructed(PlayRect), script))

SpecRun == InitRun /\ [][Next]_vars

\* ------------------------------------------------------------------------
\* The height field on its own: getGroundHeight is called once with an x
\* drawn from a grid over the course, the margins before and after it, and
\* the points just around every segment boundary.
\* ------------------------------------------------------------------------
ProbeXs == { k * 1000 + d : k \in (-2)..MaxProbe, d \in {-1, 0, 1, 500} }

InitGround ==
  /\ StartMachine(Constructed(PlayRect))
  /\ probeX \in ProbeXs
  /\ groundY = Null

Measure ==
  /\ groundY = Null
  /\ groundY' = getGroundHeight(probeX)
  /\ UNCHANGED <<runtime, ui, now, keysDown, frames, events, last, wonTimes,
                 forward, probeX>>

NextGround == Measure

SpecGround == InitGround /\ [][NextGround]_vars

\* ------------------------------------------------------------------------
\* Properties
\* ------------------------------------------------------------------------
Machine == [rt |-> runtime, ui |-> ui]

IsFrame == frames' = frames + 1

IsEvent == events' = events + 1

StartCodes == JumpCodes \cup {"Enter", "KeyR"}

\* the last operation asked for a start: a start key or one of the buttons
StartRequested(l) ==
  \/ l.op = "click"
  \/ l.op = "keydown" /\ l.code \in StartCodes

NoFlags ==
  [left |-> FALSE, right |-> FALSE, jumpHeld |-> FALSE, jumpPressed |-> FALSE]

Least(S) == CHOOSE t \in S : \A u \in S : t <= u

\* C1: a frame that begins with status intro, won or crashed leaves every
\* rider field unchanged (the integrator runs only while playing).
C1_IntegratorOnlyWhilePlaying ==
  [][(IsFrame /\ runtime.status # "playing") => runtime'.player = runtime.player]_vars

\* a frame ran after the run had crashed, the rider away from its start pose
C1_Witness ==
  /\ last.op = "frame"
  /\ last.status = "crashed"
  /\ runtime.player # createPlayer

\* C2: handleCrash and handleWin, called while status is not playing, leave
\* the whole state (runtime and HUD state) unchanged.
C2_TransitionsIdempotent ==
  runtime.status # "playing" =>
    /\ handleWin(Machine) = Machine
    /\ handleCrash(Machine) = Machine

\* the step called handleWin after handleCrash had already ended the run
C2_Witness ==
  /\ last.op = "frame"
  /\ last.crashHit
  /\ last.finishHit
  /\ runtime.status = "crashed"

\* C3 as claimed: any start request that arrives while playing leaves rider,
\* camera, timer and input flags unchanged.
C3_StartWhilePlayingIsNoOp ==
  [][(IsEvent /\ runtime.status = "playing" /\ StartRequested(last'))
       => /\ runtime'.player = runtime.player
          /\ runtime'.cameraX = runtime.cameraX
          /\ runtime'.startTimestamp = runtime.startTimestamp
          /\ runtime'.elapsed = runtime.elapsed
          /\ runtime'.input = runtime.input]_vars

\* C3 amended: while playing, a jump key leaves rider, camera, timer and the
\* lean flags unchanged and only marks the jump (jumpHeld, and jumpPressed on
\* a press from released); Enter and R restart the run from its defaults; the
\* buttons cannot be clicked.
C3_StartWhilePlaying ==
  [][(IsEvent /\ runtime.status = "playing" /\ StartRequested(last'))
       => /\ last'.op = "keydown"
          /\ runtime'.status = "playing"
          /\ IF last'.code \in JumpCodes
               THEN /\ runtime'.player = runtime.player
                    /\ runtime'.cameraX = runtime.cameraX
                    /\ runtime'.startTimestamp = runtime.startTimestamp
                    /\ runtime'.elapsed = runtime.elapsed
                    /\ runtime'.lastTime = runtime.lastTime
                    /\ runtime'.input.left = runtime.input.left
                    /\ runtime'.input.right = runtime.input.right
                    /\ runtime'.input.jumpHeld
                    /\ runtime'.input.jumpPressed =
                         (runtime.input.jumpPressed \/ ~runtime.input.jumpHeld)
               ELSE /\ runtime'.player = createPlayer
                    /\ runtime'.cameraX = 0
                    /\ runtime'.startTimestamp = now
                    /\ runtime'.elapsed = 0
                    /\ runtime'.input = NoFlags]_vars

\* a jump key went down in the middle of a run that had already moved on
C3_Witness ==
  /\ last.op = "keydown"
  /\ last.code = "Space"
  /\ last.status = "playing"
  /\ runtime.status = "playing"
  /\ runtime.player # createPlayer
  /\ runtime.elapsed > 0

\* C4: a keydown that repeats a jump key which is physically held never sets
\* jumpPressed (only a released-to-held transition of the jump intent does).
C4_RepeatNeverSetsJumpPressed ==
  (last.op = "keydown" /\ last.code \in JumpCodes /\ last.repeat /\ ~last.pressed)
    => ~runtime.input.jumpPressed

\* C5: a start action taken while status is intro, won or crashed moves to
\* playing with the createPlayer rider, cameraX 0, elapsed 0 and all four
\* input flags false.
C5_StartResets ==
  (StartRequested(last) /\ last.status \in {"intro", "won", "crashed"})
    => /\ runtime.status = "playing"
       /\ runtime.player = createPlayer
       /\ runtime.cameraX = 0
       /\ runtime.elapsed = 0
       /\ runtime.input = NoFlags

\* a jump key restarted a crashed run
C5_Witness ==
  /\ last.op = "keydown"
  /\ last.code \in JumpCodes
  /\ last.status = "crashed"
  /\ runtime.status = "playing"

\* C6: best time is null while no run was won and otherwise the least of the
\* elapsed times of the won runs; it changes only on a playing-to-won step.
C6_BestTimeIsMinimum ==
  /\ [](ui.bestTime = IF wonTimes = {} THEN Null ELSE Least(wonTimes))
  /\ [][ui'.bestTime # ui.bestTime
          => runtime.status = "playing" /\ runtime'.status = "won"]_vars

\* a second run was won, slower than the best one
C6_Witness ==
  /\ Cardinality(wonTimes) = 2
  /\ runtime.status = "won"
  /\ ui.finalTime > ui.bestTime

\* C7: while status stays won or crashed runtime.elapsed keeps its value, and
\* the final time of a won run equals it.
C7_TimerFreezes ==
  /\ [](runtime.status = "won" => ui.finalTime = runtime.elapsed)
  /\ [][(runtime.status \in {"won", "crashed"} /\ runtime'.status = runtime.status)
          => runtime'.elapsed = runtime.elapsed]_vars

\* a frame ran after the win, later than the instant the timer stopped at
C7_Witness ==
  /\ last.op = "frame"
  /\ last.status = "won"
  /\ runtime.status = "won"
  /\ ui.finalTime = runtime.elapsed
  /\ now > runtime.startTimestamp + runtime.elapsed

\* C8: a step that ends with a crash condition true and the rider at or past
\* FINISH_X ends crashed, and best time and final time are not updated.
C8_CrashBeatsFinish ==
  [][(IsFrame /\ last'.crashHit /\ last'.finishHit)
       => /\ runtime'.status = "crashed"
          /\ ui'.bestTime = ui.bestTime
          /\ ui'.finalTime = ui.finalTime]_vars

\* a step met a crash condition past the finish line
C8_Witness ==
  /\ last.op = "frame"
  /\ last.status = "playing"
  /\ last.crashHit
  /\ last.finishHit
  /\ runtime.player.x >= FINISH_X * 100

\* C9: every physics step ends with jumpPressed false, and the jump impulse
\* is applied only in a step with ground contact that began with jumpPressed.
C9_JumpFlagConsumed ==
  (last.op = "frame" /\ last.status = "playing")
    => /\ ~runtime.input.jumpPressed
       /\ last.jumped => (last.contact /\ last.pressed)

\* a press was consumed by a step in the air, without an impulse
C9_Witness ==
  /\ last.op = "frame"
  /\ last.status = "playing"
  /\ last.pressed
  /\ ~last.contact
  /\ ~last.jumped
  /\ ~runtime.input.jumpPressed

C11_CameraClamped ==
  (last.op = "frame" /\ runtime.viewport.width > 0)
    => /\ runtime.cameraX >= 0
       /\ runtime.cameraX <= Max(0, FINISH_X * 100 - runtime.viewport.width * 40)

\* a frame left the camera scrolled into the course
C11_Witness ==
  /\ last.op = "frame"
  /\ runtime.viewport.width > 0
  /\ runtime.cameraX > 0
  /\ runtime.cameraX < runtime.player.x

\* the reference height field: the linear interpolation of a segment's
\* endpoints at x
Interp(segment, x) ==
  segment.startY * 100 +
    RDiv((segment.endY - segment.startY) * (x - segment.startX * 100),
         segment.endX - segment.startX)

\* C12: getGroundHeight returns the first segment's startY before the first
\* segment, the last segment's endY after the last one, and inside a segment
\* the linear interpolation of its endpoints; at a shared boundary this is the
\* height of both adjacent segments.
C12_GroundHeightField ==
  groundY # Null =>
    /\ probeX < levelSegments[1].startX * 100
         => groundY = levelSegments[1].startY * 100
    /\ probeX > levelSegments[Len(levelSegments)].endX * 100
         => groundY = levelSegments[Len(levelSegments)].endY * 100
    /\ \A i \in 1..Len(levelSegments) :
         (probeX >= levelSegments[i].startX * 100 /\ probeX <= levelSegments[i].endX * 100)
           => groundY = Interp(levelSegments[i], probeX)

\* the height was taken at the boundary shared by two sloping segments
C12_Witness ==
  /\ groundY # Null
  /\ \E i \in 1..(Len(levelSegments) - 1) :
       /\ probeX = levelSegments[i].endX * 100
       /\ probeX = levelSegments[i + 1].startX * 100
       /\ levelSegments[i].startY # levelSegments[i].endY
       /\ levelSegments[i + 1].startY # levelSegments[i + 1].endY

\* C13: within one run in which vx is >= 0 at every physics step, the
\* progress percentage shown by the HUD never decreases from one frame to the
\* next.
C13_ProgressMonotonic ==
  [][(IsFrame /\ runtime.status = "playing" /\ forward')
       => ui'.progress >= ui.progress]_vars

\* the status changes the run state machine allows
StatusSteps ==
  { <<"intro", "playing">>, <<"playing", "won">>, <<"playing", "crashed">>,
    <<"won", "playing">>, <<"crashed", "playing">> }

\* C14: status changes only along intro->playing, playing->won,
\* playing->crashed, won->playing and crashed->playing; won and crashed last
\* until a start action, whatever frames, lean keys and key releases come;
\* status never returns to intro; the HUD status follows the runtime status.
C14_StatusTransitions ==
  [][/\ runtime'.status # runtime.status
          => <<runtime.status, runtime'.status>> \in StatusSteps
     /\ (runtime.status \in {"won", "crashed"} /\ ~StartRequested(last'))
          => runtime'.status = runtime.status
     /\ runtime'.status = "intro" => runtime.status = "intro"
     /\ ui'.status = runtime'.status]_vars

\* Enter started a new run after a won one
C14_Witness ==
  /\ last.op = "keydown"
  /\ last.code = "Enter"
  /\ last.status = "won"
  /\ runtime.status = "playing"
  /\ wonTimes # {}

=============================================================================
